---- MODULE Spec2Model ----
(***************************************************************************)
(* Model of the spaceship booking service: the trips and spaceships tables,*)
(* TripService (requestTrip, cancelTrip, updateTripStatuses) and           *)
(* SpaceshipService (location and availability resolution).                *)
(*                                                                         *)
(* Instants are integers counting ticks of 36 ms from the model's epoch:   *)
(* distances carry two decimals and 0.01 mile at 1000 mph takes exactly    *)
(* 36 ms, so every Date the service computes is a whole number of ticks.   *)
(* Distances are integers counting hundredths of a mile.                   *)
(***************************************************************************)
EXTENDS Integers, Sequences, FiniteSets, TLC

VARIABLES now, home, trips, pc, req, result

vars == <<now, home, trips, pc, req, result>>

(***************************************************************************)
(* Bounds of the model.                                                    *)
(***************************************************************************)
\* rows the trips table may hold
MaxTrips == 2
\* hours of wall-clock time the model covers with bookable instants
MaxHours == 2
\* spaceships of the largest fleet
MaxShips == 2
\* nested calls of getSpaceshipLocationAtTime after which a call is taken
\* never to return: more than a spaceship can have trips
RecursionLimit == MaxTrips + 1

(***************************************************************************)
(* Program constants.                                                      *)
(***************************************************************************)
SPACESHIP_SPEED_MPH == 1000
MILLISECONDS_PER_HOUR == 3600000

\* milliseconds in one tick: the travel time of 0.01 mile
TickMs == MILLISECONDS_PER_HOUR \div (SPACESHIP_SPEED_MPH * 100)
TicksPerHour == MILLISECONDS_PER_HOUR \div TickMs
TicksPerDay == 24 * TicksPerHour

\* Math.round(a / b) for a >= 0, b > 0
MathRound(a, b) == (2 * a + b) \div (2 * b)

RECURSIVE ScaledBy(_, _, _)
\* a * e / t of JavaScript's numbers, for 0 <= e and 0 < t, as <<q, r>> with
\* a * e = q * t + r and 0 <= r < t: the product is never formed, so that no
\* intermediate value leaves the 32-bit integers
ScaledBy(a, e, t) ==
  IF e = 0
  THEN <<0, 0>>
  ELSE LET half == ScaledBy(a, e \div 2, t)
           q == 2 * half[1] + (2 * half[2]) \div t
           r == (2 * half[2]) % t
       IN IF e % 2 = 0
          THEN <<q, r>>
          ELSE <<q + (a \div t) + (r + (a % t)) \div t, (r + (a % t)) % t>>

\* the rows of the locations table
LocationCodes == {"JFK", "SFO", "LAX"}

\* the latitude and longitude columns of the seeded locations table, in
\* millionths of a degree
latitude(code) ==
  CASE code = "JFK" -> 40641300
    [] code = "SFO" -> 37621300
    [] code = "LAX" -> 33941600

longitude(code) ==
  CASE code = "JFK" -> -73778100
    [] code = "SFO" -> -122379000
    [] code = "LAX" -> -118408500
\* a code no row of the locations table has
UnknownCode == "XXX"
\* the code of a row of the locations table, written in lower case
LowerCaseCode == "jfk"

\* String.prototype.toUpperCase, on the codes of the model
toUpperCase(code) == IF code = LowerCaseCode THEN "JFK" ELSE code

\* the seeded spaceships table, as id -> currentLocationCode (SS-001, SS-002,
\* SS-003), and the fleets of the model: its first spaceships
SeedFleet == <<"JFK", "JFK", "SFO">>
Fleets == {SubSeq(SeedFleet, 1, n) : n \in 1..MaxShips}

IN_TRANSIT == "IN_TRANSIT"
\* the outcome of a call that never returns
NoReturn == "NO_RETURN"
\* null, for a Date
NoTime == -1

Clients == {"c1", "c2"}

(***************************************************************************)
(* Geo/time utilities.                                                     *)
(***************************************************************************)
\* DistanceCalculator.getPreCalculatedDistance: hundredths of a mile, 0 for null
getPreCalculatedDistance(from, to) ==
  CASE {from, to} = {"JFK", "LAX"} /\ from # to -> 247579
    [] {from, to} = {"JFK", "SFO"} /\ from # to -> 258648
    [] {from, to} = {"LAX", "SFO"} /\ from # to -> 34742
    [] OTHER -> 0

\* DistanceCalculator.calculateDistance on the coordinates of two rows of the
\* locations table: the haversine distance, 0 from a location to itself (the
\* only pair LocationService.calculateDistance passes on to it: every pair of
\* different seeded locations is in the table)
haversineDistance(fromLocation, toLocation) ==
  IF fromLocation = toLocation
  THEN 0
  ELSE getPreCalculatedDistance(fromLocation, toLocation)

\* LocationService.calculateDistance: the table entry of the codes in upper
\* case, else the distance between the rows findByCode gives
calculateDistance(fromCode, toCode) ==
  LET preCalculated == getPreCalculatedDistance(toUpperCase(fromCode), toUpperCase(toCode))
  IN IF preCalculated # 0
     THEN preCalculated
     ELSE haversineDistance(toUpperCase(fromCode), toUpperCase(toCode))

\* TimeCalculator.calculateTravelTime, in ticks
calculateTravelTime(distance) ==
  MathRound(distance * (MILLISECONDS_PER_HOUR \div SPACESHIP_SPEED_MPH), 100 * TickMs)

\* TimeCalculator.calculateArrivalTime
calculateArrivalTime(departureTime, distance) ==
  departureTime + calculateTravelTime(distance)

\* TripService.calculateTravelDetails: the arrival time
calculateTravelDetails(departureCode, destinationCode, departureTime) ==
  calculateArrivalTime(departureTime, calculateDistance(departureCode, destinationCode))

\* DateUtils.isPast
isPast(date, current) == date < current

(***************************************************************************)
(* Queries on the trips table. ts is the table, a sequence of rows; a      *)
(* row's id is its index.                                                  *)
(***************************************************************************)
\* typeorm find operators, as the values the where clause receives
MoreThan(x) == [type |-> "moreThan", value |-> x]
LessThanOrEqual(x) == [type |-> "lessThanOrEqual", value |-> x]
Satisfies(v, f) ==
  CASE f.type = "moreThan" -> v > f.value
    [] f.type = "lessThanOrEqual" -> v <= f.value

\* JavaScript a && b on two find operators: both are objects, hence truthy,
\* and the expression evaluates to b
JsAnd(a, b) == b

\* the rows of spaceship v whatever their status: the filter without its
\* status condition
NotCancelled_AnyStatus(ts, v) == {i \in DOMAIN ts : ts[i].spaceshipId = v}

\* rows of spaceship v with status Not(CANCELLED)
NotCancelled(ts, v) ==
  {i \in DOMAIN ts : ts[i].spaceshipId = v /\ ts[i].status # "CANCELLED"}

\* the rows findOne may return for lastCompletedTrip (order arrivalAt DESC)
LastCompletedTrips(ts, v, targetTime) ==
  LET c == {i \in NotCancelled(ts, v) : Satisfies(ts[i].arrivalAt, LessThanOrEqual(targetTime))}
  IN {i \in c : \A j \in c : ts[j].arrivalAt <= ts[i].arrivalAt}

\* the where clause on departureAt of the subsequentTrip query
SubsequentFilter(lastArrivalAt, targetTime) ==
  JsAnd(MoreThan(lastArrivalAt), LessThanOrEqual(targetTime))

\* the rows findOne may return for subsequentTrip (order departureAt ASC)
SubsequentTrips(ts, v, lastArrivalAt, targetTime) ==
  LET c == {i \in NotCancelled(ts, v) :
              Satisfies(ts[i].departureAt, SubsequentFilter(lastArrivalAt, targetTime))}
  IN {i \in c : \A j \in c : ts[i].departureAt <= ts[j].departureAt}

\* the rows findOne may return for ongoingTrip
OngoingTrips(ts, v, targetTime) ==
  {i \in NotCancelled(ts, v) :
     /\ Satisfies(ts[i].departureAt, LessThanOrEqual(targetTime))
     /\ Satisfies(ts[i].arrivalAt, MoreThan(targetTime))}

(***************************************************************************)
(* SpaceshipService.getSpaceshipLocationAtTime. The result is the set of   *)
(* outcomes the call may have, each with the number of nested calls that   *)
(* led to it: a findOne whose order leaves a tie may return any of the     *)
(* tied rows. hm is the spaceships table (id -> currentLocationCode).      *)
(***************************************************************************)
RECURSIVE getSpaceshipLocationAtTime(_, _, _, _, _)
getSpaceshipLocationAtTime(ts, hm, v, targetTime, depth) ==
  IF depth > RecursionLimit
  THEN {[loc |-> NoReturn, depth |-> depth]}
  ELSE
    LET lasts == LastCompletedTrips(ts, v, targetTime) IN
    IF lasts # {}
    THEN UNION {
      LET subs == SubsequentTrips(ts, v, ts[l].arrivalAt, targetTime) IN
      IF subs = {}
      THEN {[loc |-> ts[l].destinationLocationCode, depth |-> depth]}
      ELSE UNION {
        IF targetTime >= ts[s].departureAt /\ targetTime < ts[s].arrivalAt
        THEN {[loc |-> IN_TRANSIT, depth |-> depth]}
        ELSE IF targetTime >= ts[s].arrivalAt
             THEN getSpaceshipLocationAtTime(ts, hm, v, targetTime, depth + 1)
             ELSE {[loc |-> ts[l].destinationLocationCode, depth |-> depth]}
        : s \in subs }
      : l \in lasts }
    ELSE IF OngoingTrips(ts, v, targetTime) # {}
         THEN {[loc |-> IN_TRANSIT, depth |-> depth]}
         ELSE {[loc |-> hm[v], depth |-> depth]}

\* the locations a top-level call may return (NoReturn: it may never return)
LocationsAt(ts, hm, v, targetTime) ==
  {o.loc : o \in getSpaceshipLocationAtTime(ts, hm, v, targetTime, 0)}

\* one outcome of getSpaceshipLocationAtTime for every spaceship
LocationViews(ts, hm, targetTime) ==
  LET at == [v \in DOMAIN hm |-> LocationsAt(ts, hm, v, targetTime)]
  IN {f \in [DOMAIN hm -> UNION {at[v] : v \in DOMAIN hm}] :
        \A v \in DOMAIN hm : f[v] \in at[v]}

\* every call of the view returns
Returns(view) == \A v \in DOMAIN view : view[v] # NoReturn

(***************************************************************************)
(* Availability resolution. loc is the outcome of the call's               *)
(* getSpaceshipLocationAtTime, view one such outcome per spaceship.        *)
(***************************************************************************)
\* isSpaceshipAvailable with the conflicting trip looked up among the trips
\* of every status
isSpaceshipAvailable_AnyStatus(ts, loc, spaceshipId, locationCode, requestedTime) ==
  IF loc # locationCode
  THEN FALSE
  ELSE ~ \E i \in DOMAIN ts :
           ts[i].spaceshipId = spaceshipId /\ ts[i].departureAt = requestedTime

\* SpaceshipService.isSpaceshipAvailable
isSpaceshipAvailable(ts, loc, spaceshipId, locationCode, requestedTime) ==
  IF loc # locationCode
  THEN FALSE
  ELSE ~ \E i \in NotCancelled(ts, spaceshipId) : ts[i].departureAt = requestedTime

\* SpaceshipService.findAvailableSpaceships: the spaceships of the returned
\* list (spaceshipRepository.find() states no order)
findAvailableSpaceships(ts, view, departureLocationCode, requestedDepartureTime) ==
  {v \in DOMAIN view :
     isSpaceshipAvailable(ts, view[v], v, departureLocationCode, requestedDepartureTime)}

\* getNextAvailableTime taking the next arrival anywhere: the futureArrival
\* lookup without its destinationLocationCode condition
getNextAvailableTime_AnyDestination(ts, loc, spaceshipId, locationCode, afterTime) ==
  IF loc = locationCode
  THEN afterTime
  ELSE
    LET futureArrivals ==
          {i \in NotCancelled(ts, spaceshipId) :
             Satisfies(ts[i].arrivalAt, MoreThan(afterTime))}
    IN IF futureArrivals # {}
       THEN CHOOSE t \in {ts[i].arrivalAt : i \in futureArrivals} :
              \A i \in futureArrivals : t <= ts[i].arrivalAt
       ELSE NoTime

\* SpaceshipService.getNextAvailableTime (NoTime for null)
getNextAvailableTime(ts, loc, spaceshipId, locationCode, afterTime) ==
  IF loc = locationCode
  THEN afterTime
  ELSE
    LET futureArrivals ==
          {i \in NotCancelled(ts, spaceshipId) :
             /\ Satisfies(ts[i].arrivalAt, MoreThan(afterTime))
             /\ ts[i].destinationLocationCode = locationCode}
    IN IF futureArrivals # {}
       THEN CHOOSE t \in {ts[i].arrivalAt : i \in futureArrivals} :
              \A i \in futureArrivals : t <= ts[i].arrivalAt
       ELSE NoTime

\* the loop of findEarliestAvailableSpaceship over the spaceships 1..k of
\* findAll() (order id ASC); spaceship 0 is the null earliestOption
RECURSIVE EarliestOption(_, _, _, _, _)
EarliestOption(ts, view, departureLocationCode, afterTime, k) ==
  IF k = 0
  THEN [spaceship |-> 0, availableTime |-> NoTime]
  ELSE
    LET earliestOption == EarliestOption(ts, view, departureLocationCode, afterTime, k - 1)
        nextAvailable == getNextAvailableTime(ts, view[k], k, departureLocationCode, afterTime)
    IN IF /\ nextAvailable # NoTime
          /\ (earliestOption.spaceship = 0 \/ nextAvailable < earliestOption.availableTime)
       THEN [spaceship |-> k, availableTime |-> nextAvailable]
       ELSE earliestOption

\* TripService.findEarliestAvailableSpaceship (spaceshipId 0 for null)
findEarliestAvailableSpaceship(ts, view, departureLocationCode, destinationLocationCode, afterTime) ==
  LET earliestOption ==
        EarliestOption(ts, view, departureLocationCode, afterTime, Len(view))
  IN IF earliestOption.spaceship = 0
     THEN [spaceshipId |-> 0, departureAt |-> NoTime, arrivalAt |-> NoTime]
     ELSE [spaceshipId |-> earliestOption.spaceship,
           departureAt |-> earliestOption.availableTime,
           arrivalAt |-> calculateTravelDetails(departureLocationCode,
                           destinationLocationCode, earliestOption.availableTime)]

(***************************************************************************)
(* State.                                                                  *)
(*   now        the wall clock (new Date())                                *)
(*   home       the spaceships table: id -> currentLocationCode            *)
(*   trips      the trips table                                            *)
(*   pc, req    each client's call in flight: where it stands, and its     *)
(*              local variables                                            *)
(*   result     the call that returned or threw in the step just taken:    *)
(*              its client, what it asked and what it got (NoResponse      *)
(*              after a step in which no call returned); tripStatus is     *)
(*              the TripStatusDto of a getTripStatus, whose status field   *)
(*              here is "TRIP_STATUS"                                      *)
(***************************************************************************)
\* a call's local variables: the dto of requestTrip, availableSpaceships and
\* the id of selectedSpaceship; the tripId of cancelTrip
NoReq ==
  [departureLocationCode |-> "", destinationLocationCode |-> "",
   departureAt |-> NoTime, availableSpaceships |-> {}, spaceshipId |-> 0,
   tripId |-> 0]

\* undefined, for the currentLocation of a TripStatusDto
NoLocation == [code |-> "", latitude |-> 0, longitude |-> 0]

\* the TripStatusDto of getTripStatus
TripStatusDto(tripId, trip, status, currentLocation) ==
  [tripId |-> tripId, spaceshipId |-> trip.spaceshipId,
   departureLocationCode |-> trip.departureLocationCode,
   destinationLocationCode |-> trip.destinationLocationCode,
   departureAt |-> trip.departureAt, arrivalAt |-> trip.arrivalAt,
   status |-> status, currentLocation |-> currentLocation]

\* no TripStatusDto: the call was not a getTripStatus that returned
NoTripStatus ==
  TripStatusDto(0, [spaceshipId |-> 0, departureLocationCode |-> "",
                    destinationLocationCode |-> "", departureAt |-> NoTime,
                    arrivalAt |-> NoTime], "", NoLocation)

\* what call r of client p returned
Response(p, r, status, tripId, spaceshipId, departureAt, arrivalAt) ==
  [client |-> p, asked |-> r, status |-> status, tripId |-> tripId,
   spaceshipId |-> spaceshipId, departureAt |-> departureAt, arrivalAt |-> arrivalAt,
   tripStatus |-> NoTripStatus]

\* call r of client p threw: the exception
Thrown(p, r, exception) == Response(p, r, exception, 0, 0, NoTime, NoTime)

NoResponse == Thrown("", NoReq, "NONE")

\* the dto of a requestTrip call
RequestDto(departureLocationCode, destinationLocationCode, departureAt) ==
  [NoReq EXCEPT !.departureLocationCode = departureLocationCode,
                !.destinationLocationCode = destinationLocationCode,
                !.departureAt = departureAt]

Init ==
  /\ now = 0
  /\ home \in Fleets
  /\ trips = <<>>
  /\ pc = [p \in Clients |-> "idle"]
  /\ req = [p \in Clients |-> NoReq]
  /\ result = NoResponse

\* the instants a caller may ask to depart at: the whole hours of the model,
\* an instant more than a year ahead, and the arrival of a persisted trip
\* (the instant of an alternative offer)
RequestInstants ==
  {h * TicksPerHour : h \in 1..MaxHours}
    \cup {367 * TicksPerDay}
    \cup {trips[i].arrivalAt : i \in DOMAIN trips}

\* the instants the clock stops at
ClockInstants ==
  {h * TicksPerHour : h \in 1..MaxHours}
    \cup {trips[i].departureAt : i \in DOMAIN trips}
    \cup {trips[i].arrivalAt : i \in DOMAIN trips}

\* requestTrip calls in flight
InFlight == {p \in Clients : pc[p] \in {"searching", "booking"}}

\* oneYearFromNow: the same calendar date one year on, 365 or 366 days away
OneYearFromNow(current) == {current + 365 * TicksPerDay, current + 366 * TicksPerDay}

(***************************************************************************)
(* TripService.requestTrip.                                                *)
(***************************************************************************)
\* validateTripRequest: the exception it throws, "" for none
validateTripRequest(departureLocationCode, destinationLocationCode, departureAt, current, oneYearFromNow) ==
  IF ~ ({toUpperCase(departureLocationCode), toUpperCase(destinationLocationCode)}
          \subseteq LocationCodes)
  THEN "NotFoundException: Invalid location codes"
  ELSE IF departureLocationCode = destinationLocationCode
  THEN "BadRequestException: Departure and destination cannot be the same"
  ELSE IF isPast(departureAt, current)
  THEN "BadRequestException: Departure time must be in the future"
  ELSE IF departureAt > oneYearFromNow
  THEN "BadRequestException: Cannot book trips more than 1 year in advance"
  ELSE ""

\* findAvailableSpaceships returned a spaceship: on to the transaction
Found(p, dto, availableSpaceships, selectedSpaceship) ==
  /\ pc' = [pc EXCEPT ![p] = "booking"]
  /\ req' = [req EXCEPT ![p] = [dto EXCEPT !.availableSpaceships = availableSpaceships,
                                           !.spaceshipId = selectedSpaceship]]
  /\ result' = NoResponse

\* findAvailableSpaceships returned none: the alternative offer, or the
\* exception
Offered(p, dto, view) ==
  /\ LET earliestAvailable ==
           findEarliestAvailableSpaceship(trips, view, dto.departureLocationCode,
             dto.destinationLocationCode, dto.departureAt)
     IN result' =
          IF earliestAvailable.spaceshipId = 0
          THEN Thrown(p, dto, "BadRequestException: No spaceships available for this route")
          ELSE Response(p, dto, "ALTERNATIVE_TIME_OFFERED", 0,
                 earliestAvailable.spaceshipId,
                 earliestAvailable.departureAt, earliestAvailable.arrivalAt)
  /\ pc' = [pc EXCEPT ![p] = "idle"]
  /\ req' = [req EXCEPT ![p] = NoReq]

\* a call of getSpaceshipLocationAtTime never returns, and so neither does
\* requestTrip, as long as the tables stay as they are
Hangs(p, dto) ==
  /\ pc' = [pc EXCEPT ![p] = "searching"]
  /\ req' = [req EXCEPT ![p] = dto]
  /\ result' = NoResponse

\* requestTrip after validateTripRequest: view holds the outcomes of the
\* calls of getSpaceshipLocationAtTime under findAvailableSpaceships, view2
\* of those under findEarliestAvailableSpaceship
Search(p, dto) ==
  LET views == LocationViews(trips, home, dto.departureAt) IN
  \E view \in views, view2 \in views :
    IF ~ Returns(view)
    THEN Hangs(p, dto)
    ELSE LET availableSpaceships ==
               findAvailableSpaceships(trips, view, dto.departureLocationCode,
                 dto.departureAt)
         IN IF availableSpaceships # {}
            THEN \E selectedSpaceship \in availableSpaceships :
                   Found(p, dto, availableSpaceships, selectedSpaceship)
            ELSE IF ~ Returns(view2)
                 THEN Hangs(p, dto)
                 ELSE Offered(p, dto, view2)

\* callers are interchangeable: a call is issued by c1 unless c1 is busy
MayCall(p) ==
  /\ pc[p] = "idle"
  /\ p = "c1" \/ pc["c1"] # "idle"

\* requestTrip: validateTripRequest, findAvailableSpaceships and, with no
\* spaceship available, findEarliestAvailableSpaceship
RequestTrip(p, departureLocationCode, destinationLocationCode, departureAt) ==
  /\ MayCall(p)
  /\ Len(trips) + Cardinality(InFlight) < MaxTrips
  /\ \E oneYearFromNow \in OneYearFromNow(now) :
       LET thrown == validateTripRequest(departureLocationCode,
                       destinationLocationCode, departureAt, now, oneYearFromNow)
           dto == RequestDto(departureLocationCode, destinationLocationCode, departureAt)
       IN IF thrown # ""
          THEN /\ result' = Thrown(p, dto, thrown)
               /\ UNCHANGED <<pc, req>>
          ELSE Search(p, dto)
  /\ UNCHANGED <<now, home, trips>>

\* a requestTrip that did not return goes on once the tables let its calls
\* of getSpaceshipLocationAtTime return
RequestResume(p) ==
  /\ pc[p] = "searching"
  /\ Search(p, req[p])
  /\ pc'[p] # "searching"
  /\ UNCHANGED <<now, home, trips>>

\* the row with departure and destination taken from each other's field
NewTrip_SwappedCodes(r) ==
  [spaceshipId |-> r.spaceshipId,
   departureLocationCode |-> r.destinationLocationCode,
   destinationLocationCode |-> r.departureLocationCode,
   departureAt |-> r.departureAt,
   arrivalAt |-> calculateTravelDetails(r.departureLocationCode,
                   r.destinationLocationCode, r.departureAt),
   status |-> "SCHEDULED"]

\* the row the transaction saves
NewTrip(r) ==
  [spaceshipId |-> r.spaceshipId,
   departureLocationCode |-> r.departureLocationCode,
   destinationLocationCode |-> r.destinationLocationCode,
   departureAt |-> r.departureAt,
   arrivalAt |-> calculateTravelDetails(r.departureLocationCode,
                   r.destinationLocationCode, r.departureAt),
   status |-> "SCHEDULED"]

\* the CHECK constraint of the trips table
CheckDepartureBeforeArrival(row) == row.departureAt < row.arrivalAt

\* the transaction saving the row and then throwing instead of returning
RequestInsert_ThrowsAfterSave(p) ==
  /\ pc[p] = "booking"
  /\ trips' = Append(trips, NewTrip(req[p]))
  /\ result' = Thrown(p, req[p], "QueryFailedError")
  /\ pc' = [pc EXCEPT ![p] = "idle"]
  /\ req' = [req EXCEPT ![p] = NoReq]
  /\ UNCHANGED <<now, home>>

\* the errors a step of the transaction may end with: calculateTravelDetails
\* (its lookups), save (the INSERT) and commitTransaction (the serialization
\* failure of a SERIALIZABLE transaction)
TravelDetailsError == "Error: calculateTravelDetails failed"
SaveError == "QueryFailedError: insert failed"
SerializationFailure == "QueryFailedError: could not serialize access"
TransactionFaults == {TravelDetailsError, SaveError, SerializationFailure}

\* the trips table as the transaction sees it when it throws: with its own
\* row once the INSERT has gone through
PendingTrips(ts, trip, thrown) ==
  IF thrown = SerializationFailure THEN Append(ts, trip) ELSE ts

\* a rollback that keeps what the transaction wrote
rollbackTransaction_KeepsPending(committed, pending) == pending

\* queryRunner.rollbackTransaction: the table holds the committed rows only
rollbackTransaction(committed, pending) == committed

\* the foreign keys of the trips table: the spaceship and the two location
\* codes are those of a row
ForeignKeys(row, hm) ==
  /\ row.spaceshipId \in DOMAIN hm
  /\ row.departureLocationCode \in LocationCodes
  /\ row.destinationLocationCode \in LocationCodes

\* an INSERT no constraint rejects
InsertAccepted_NoConstraints(row, hm) == TRUE

\* the INSERT goes through: the row meets the constraints of the table
InsertAccepted(row, hm) ==
  CheckDepartureBeforeArrival(row) /\ ForeignKeys(row, hm)

\* what the try block may throw ("": nothing, the transaction commits)
TransactionOutcomes(trip) ==
  IF InsertAccepted(trip, home)
  THEN {""} \cup TransactionFaults
  ELSE {"QueryFailedError"}

\* the SERIALIZABLE transaction: calculateTravelDetails, save, commit, and the
\* catch block (rollbackTransaction; throw error)
RequestInsert(p) ==
  /\ pc[p] = "booking"
  /\ LET trip == NewTrip(req[p]) IN
       \E thrown \in TransactionOutcomes(trip) :
         IF thrown = ""
         THEN /\ trips' = Append(trips, trip)
              /\ result' = Response(p, req[p], "SCHEDULED", Len(trips) + 1,
                              trip.spaceshipId, trip.departureAt, trip.arrivalAt)
         ELSE /\ trips' = rollbackTransaction(trips, PendingTrips(trips, trip, thrown))
              /\ result' = Thrown(p, req[p], thrown)
  /\ pc' = [pc EXCEPT ![p] = "idle"]
  /\ req' = [req EXCEPT ![p] = NoReq]
  /\ UNCHANGED <<now, home>>

(***************************************************************************)
(* TripService.cancelTrip.                                                 *)
(***************************************************************************)
\* the checks without the one on the departure time
cancelChecks_NoDepartureCheck(ts, tripId, current) ==
  IF tripId \notin DOMAIN ts
  THEN "NotFoundException: Trip not found"
  ELSE IF ts[tripId].status = "CANCELLED"
  THEN "BadRequestException: Trip is already cancelled"
  ELSE IF ts[tripId].status = "COMPLETED"
  THEN "BadRequestException: Cannot cancel a completed trip"
  ELSE ""

\* the checks of cancelTrip on the row read: the exception thrown, "" for none
cancelChecks(ts, tripId, current) ==
  IF tripId \notin DOMAIN ts
  THEN "NotFoundException: Trip not found"
  ELSE IF ts[tripId].status = "CANCELLED"
  THEN "BadRequestException: Trip is already cancelled"
  ELSE IF ts[tripId].status = "COMPLETED"
  THEN "BadRequestException: Cannot cancel a completed trip"
  ELSE IF ts[tripId].departureAt <= current
  THEN "BadRequestException: Cannot cancel a trip that has already departed"
  ELSE ""

\* cancelTrip up to its last check
CancelTrip(p, tripId) ==
  /\ MayCall(p)
  /\ LET thrown == cancelChecks(trips, tripId, now) IN
       IF thrown # ""
       THEN /\ result' = Thrown(p, [NoReq EXCEPT !.tripId = tripId], thrown)
            /\ UNCHANGED <<pc, req>>
       ELSE /\ pc' = [pc EXCEPT ![p] = "cancelling"]
            /\ req' = [req EXCEPT ![p] = [NoReq EXCEPT !.tripId = tripId]]
            /\ result' = NoResponse
  /\ UNCHANGED <<now, home, trips>>

\* a save that also moves the spaceship to the trip's destination
CancelSave_MovesSpaceship(p) ==
  /\ pc[p] = "cancelling"
  /\ trips' = [trips EXCEPT ![req[p].tripId].status = "CANCELLED"]
  /\ home' = [home EXCEPT ![trips[req[p].tripId].spaceshipId] =
                trips[req[p].tripId].destinationLocationCode]
  /\ result' = Response(p, req[p], "CANCELLED", req[p].tripId, 0, NoTime, NoTime)
  /\ pc' = [pc EXCEPT ![p] = "idle"]
  /\ req' = [req EXCEPT ![p] = NoReq]
  /\ now' = now

\* trip.status = CANCELLED; tripRepository.save(trip)
CancelSave(p) ==
  /\ pc[p] = "cancelling"
  /\ trips' = [trips EXCEPT ![req[p].tripId].status = "CANCELLED"]
  /\ result' = Response(p, req[p], "CANCELLED", req[p].tripId, 0, NoTime, NoTime)
  /\ pc' = [pc EXCEPT ![p] = "idle"]
  /\ req' = [req EXCEPT ![p] = NoReq]
  /\ UNCHANGED <<now, home>>

(***************************************************************************)
(* TripService.getTripStatus.                                              *)
(***************************************************************************)
\* Math.round(x * 1000000) / 1000000 of x = from + (to - from) * elapsedTime /
\* totalTime, in millionths of a degree
Interpolated(from, to, elapsedTime, totalTime) ==
  LET scaled == ScaledBy(to - from, elapsedTime, totalTime)
  IN from + scaled[1] + (IF 2 * scaled[2] >= totalTime THEN 1 ELSE 0)

\* getCurrentLocation interpolating after the arrival as it does before it
getCurrentLocation_NoArrivalClamp(trip, currentTime) ==
  LET totalTime == trip.arrivalAt - trip.departureAt
      elapsedTime == currentTime - trip.departureAt
  IN IF elapsedTime <= 0
     THEN [latitude |-> trip.departureLat, longitude |-> trip.departureLon,
           progress |-> 0]
     ELSE [latitude |-> Interpolated(trip.departureLat, trip.destinationLat,
                                     elapsedTime, totalTime),
           longitude |-> Interpolated(trip.departureLon, trip.destinationLon,
                                      elapsedTime, totalTime),
           progress |-> MathRound(elapsedTime * 100, totalTime)]

\* TimeCalculator.getCurrentLocation: the point of the straight line from the
\* departure to the destination coordinates at elapsedTime / totalTime of the
\* way, rounded to millionths of a degree, and progress, rounded to hundredths
\* and given in hundredths
getCurrentLocation(trip, currentTime) ==
  LET totalTime == trip.arrivalAt - trip.departureAt
      elapsedTime == currentTime - trip.departureAt
  IN IF elapsedTime <= 0
     THEN [latitude |-> trip.departureLat, longitude |-> trip.departureLon,
           progress |-> 0]
     ELSE IF elapsedTime >= totalTime
     THEN [latitude |-> trip.destinationLat, longitude |-> trip.destinationLon,
           progress |-> 100]
     ELSE [latitude |-> Interpolated(trip.departureLat, trip.destinationLat,
                                     elapsedTime, totalTime),
           longitude |-> Interpolated(trip.departureLon, trip.destinationLon,
                                      elapsedTime, totalTime),
           progress |-> MathRound(elapsedTime * 100, totalTime)]

\* the argument getTripStatus gives getCurrentLocation for a row of trips, its
\* two locations joined
LocationArgs(trip) ==
  [departureAt |-> trip.departureAt,
   arrivalAt |-> trip.arrivalAt,
   departureLat |-> latitude(trip.departureLocationCode),
   departureLon |-> longitude(trip.departureLocationCode),
   destinationLat |-> latitude(trip.destinationLocationCode),
   destinationLon |-> longitude(trip.destinationLocationCode)]

\* the response of getTripStatus for the row read
getTripStatus(ts, tripId, current) ==
  LET trip == ts[tripId] IN
  IF trip.status = "SCHEDULED"
  THEN IF current >= trip.departureAt /\ current < trip.arrivalAt
       THEN LET currentLocation == getCurrentLocation(LocationArgs(trip), current) IN
            TripStatusDto(tripId, trip, "IN_PROGRESS",
              [code |-> IN_TRANSIT,
               latitude |-> currentLocation.latitude,
               longitude |-> currentLocation.longitude])
       ELSE IF current >= trip.arrivalAt
       THEN TripStatusDto(tripId, trip, "COMPLETED", NoLocation)
       ELSE TripStatusDto(tripId, trip, trip.status, NoLocation)
  ELSE TripStatusDto(tripId, trip, trip.status, NoLocation)

\* getTripStatus: it reads and writes nothing of the calls in flight, and is
\* called between them
GetTripStatus(p, tripId) ==
  /\ \A q \in Clients : pc[q] = "idle"
  /\ MayCall(p)
  /\ LET asked == [NoReq EXCEPT !.tripId = tripId] IN
       IF tripId \notin DOMAIN trips
       THEN result' = Thrown(p, asked, "NotFoundException: Trip not found")
       ELSE result' = [Response(p, asked, "TRIP_STATUS", tripId, 0, NoTime, NoTime)
                         EXCEPT !.tripStatus = getTripStatus(trips, tripId, now)]
  /\ UNCHANGED <<now, home, trips, pc, req>>

(***************************************************************************)
(* TripService.updateTripStatuses.                                         *)
(***************************************************************************)
\* the first UPDATE without its condition on the status
UpdateInProgress_AnyStatus(ts, current) ==
  [i \in DOMAIN ts |->
     IF /\ ts[i].departureAt <= current
        /\ ts[i].arrivalAt > current
     THEN [ts[i] EXCEPT !.status = "IN_PROGRESS"]
     ELSE ts[i]]

\* the first UPDATE: trips that should be in progress
UpdateInProgress(ts, current) ==
  [i \in DOMAIN ts |->
     IF /\ ts[i].status = "SCHEDULED"
        /\ ts[i].departureAt <= current
        /\ ts[i].arrivalAt > current
     THEN [ts[i] EXCEPT !.status = "IN_PROGRESS"]
     ELSE ts[i]]

\* the second UPDATE taking only the trips still scheduled
CompletedTrips_ScheduledOnly(ts, current) ==
  {i \in DOMAIN ts :
     /\ ts[i].status = "SCHEDULED"
     /\ ts[i].arrivalAt <= current}

\* the second UPDATE taking the completed trips as well
CompletedTrips_AlsoCompleted(ts, current) ==
  {i \in DOMAIN ts :
     /\ ts[i].status \in {"SCHEDULED", "IN_PROGRESS", "COMPLETED"}
     /\ ts[i].arrivalAt <= current}

\* the second UPDATE taking only the trips in progress
CompletedTrips_OnlyInProgress(ts, current) ==
  {i \in DOMAIN ts :
     /\ ts[i].status = "IN_PROGRESS"
     /\ ts[i].arrivalAt <= current}

\* the rows of the second UPDATE ... RETURNING *: trips that should be completed
CompletedTrips(ts, current) ==
  {i \in DOMAIN ts :
     /\ ts[i].status \in {"SCHEDULED", "IN_PROGRESS"}
     /\ ts[i].arrivalAt <= current}

\* the second UPDATE writing the instant of the run as the arrival
UpdateCompleted_StampsArrival(ts, current) ==
  [i \in DOMAIN ts |->
     IF i \in CompletedTrips(ts, current)
     THEN [ts[i] EXCEPT !.status = "COMPLETED", !.arrivalAt = current]
     ELSE ts[i]]

\* the second UPDATE
UpdateCompleted(ts, current) ==
  [i \in DOMAIN ts |->
     IF i \in CompletedTrips(ts, current)
     THEN [ts[i] EXCEPT !.status = "COMPLETED"]
     ELSE ts[i]]

\* SpaceshipService.updateCurrentLocation
updateCurrentLocation(hm, spaceshipId, newLocationCode) ==
  [hm EXCEPT ![spaceshipId] = newLocationCode]

\* the spaceships table after the loop over completedTrips.raw, whose order
\* the UPDATE leaves open: every table some order of rows ends with
RECURSIVE UpdateLocations(_, _, _)
UpdateLocations(hm, ts, rows) ==
  IF rows = {}
  THEN {hm}
  ELSE UNION {
    UpdateLocations(
      updateCurrentLocation(hm, ts[i].spaceship_id, ts[i].destination_location_code),
      ts, rows \ {i})
    : i \in rows }

\* the raw rows RETURNING * gives, with the columns' names
RawRows(ts) ==
  [i \in DOMAIN ts |->
     [spaceship_id |-> ts[i].spaceshipId,
      destination_location_code |-> ts[i].destinationLocationCode]]

\* one run of updateTripStatuses
UpdateTripStatuses ==
  /\ LET inProgress == UpdateInProgress(trips, now)
         completedTrips == CompletedTrips(inProgress, now)
     IN /\ trips' = UpdateCompleted(inProgress, now)
        /\ home' \in UpdateLocations(home, RawRows(inProgress), completedTrips)
  /\ result' = NoResponse
  /\ UNCHANGED <<now, pc, req>>

(***************************************************************************)
(* The clock.                                                              *)
(***************************************************************************)
Tick ==
  /\ \E t \in ClockInstants :
       /\ t > now
       /\ \A u \in ClockInstants : u > now => t <= u
       /\ now' = t
  /\ result' = NoResponse
  /\ UNCHANGED <<home, trips, pc, req>>

\* the routes a caller may ask for: between two known locations, from or to
\* an unknown one, and from a location to itself, the same code twice or in
\* upper and in lower case
RequestRoutes ==
  {r \in LocationCodes \X LocationCodes : r[1] # r[2]}
    \cup {<<UnknownCode, "JFK">>, <<"JFK", UnknownCode>>, <<"JFK", "JFK">>,
          <<"JFK", LowerCaseCode>>}

Next ==
  \/ \E p \in Clients, r \in RequestRoutes, t \in RequestInstants :
       RequestTrip(p, r[1], r[2], t)
  \/ \E p \in Clients : RequestResume(p)
  \/ \E p \in Clients : RequestInsert(p)
  \/ \E p \in Clients : \E tripId \in 0..Len(trips) : CancelTrip(p, tripId)
  \/ \E p \in Clients : CancelSave(p)
  \/ \E p \in Clients : \E tripId \in 0..Len(trips) : GetTripStatus(p, tripId)
  \/ UpdateTripStatuses
  \/ Tick

Spec == Init /\ [][Next]_vars

(***************************************************************************)
(* TimeCalculator.getCurrentLocation applied to one scheduled trip of the  *)
(* seeded routes at the instants around its departure and its arrival.     *)
(***************************************************************************)
\* the parts of the travel time the instants are taken at: a half, a third,
\* and one four-hundredth
Parts == {2, 3, 400}

\* the instants getCurrentLocation is asked about for a trip
LocationInstants(trip) ==
  LET totalTime == trip.arrivalAt - trip.departureAt
  IN {trip.departureAt - 1, trip.departureAt, trip.departureAt + 1,
      trip.arrivalAt - 1, trip.arrivalAt, trip.arrivalAt + 1}
     \cup {trip.departureAt + totalTime \div n : n \in Parts}
     \cup {trip.arrivalAt - totalTime \div n : n \in Parts}

\* one trip of a spaceship, from where the spaceship is, and the clock at one of
\* the instants
LocationInit ==
  /\ \E departureCode \in LocationCodes :
     \E destinationCode \in LocationCodes \ {departureCode} :
     \E h \in 1..MaxHours :
       /\ home = <<departureCode>>
       /\ trips = <<NewTrip([NoReq EXCEPT !.spaceshipId = 1,
                                          !.departureLocationCode = departureCode,
                                          !.destinationLocationCode = destinationCode,
                                          !.departureAt = h * TicksPerHour])>>
  /\ now \in LocationInstants(trips[1])
  /\ pc = [p \in Clients |-> "idle"]
  /\ req = [p \in Clients |-> NoReq]
  /\ result = NoResponse

\* the call of getCurrentLocation for trip i at the clock's instant
GetCurrentLocation(i) ==
  /\ result = NoResponse
  /\ result' = [NoResponse EXCEPT !.status = "CURRENT_LOCATION",
                                  !.tripId = i,
                                  !.tripStatus.currentLocation =
                                    getCurrentLocation(LocationArgs(trips[i]), now)]
  /\ UNCHANGED <<now, home, trips, pc, req>>

LocationNext == \E i \in DOMAIN trips : GetCurrentLocation(i)

LocationSpec == LocationInit /\ [][LocationNext]_vars

\* where the progress of the service is studied there is one caller, whose
\* calls follow one another. A cancelTrip still reads and saves in two steps,
\* so the clock and updateTripStatuses still come between the two; a
\* requestTrip that does not return never goes on, no other caller being there
\* to cancel a trip under it.
Requesters == {"c1"}

\* the routes asked for there: those that leave from where a spaceship is
\* seeded
LiveRoutes ==
  {r \in LocationCodes \X LocationCodes :
     /\ r[1] # r[2]
     /\ \E v \in 1..MaxShips : SeedFleet[v] = r[1]}

LiveNext ==
  \/ \E p \in Requesters, r \in LiveRoutes, t \in RequestInstants :
       RequestTrip(p, r[1], r[2], t)
  \/ \E p \in Requesters : RequestInsert(p)
  \/ \E p \in Requesters : \E tripId \in 0..Len(trips) : CancelTrip(p, tripId)
  \/ \E p \in Requesters : CancelSave(p)
  \/ \E p \in Requesters : \E tripId \in 0..Len(trips) : GetTripStatus(p, tripId)
  \/ UpdateTripStatuses
  \/ Tick

\* the service under a clock that keeps advancing and a scheduler that keeps
\* running updateTripStatuses (@Cron, every 15 minutes): neither is put off
\* for ever
LiveSpec ==
  Init /\ [][LiveNext]_vars /\ WF_vars(Tick) /\ WF_vars(UpdateTripStatuses)

(***************************************************************************)
(* What the specification says of locations and availability, stated on    *)
(* the tables alone.                                                       *)
(***************************************************************************)
\* the instants the properties look at
ProbeInstants == ClockInstants \cup RequestInstants

\* the non-cancelled trips of spaceship v
Timeline(ts, v) ==
  {i \in DOMAIN ts : ts[i].spaceshipId = v /\ ts[i].status # "CANCELLED"}

\* a non-cancelled trip of v is in progress at T
InProgressAt(ts, v, T) ==
  \E i \in Timeline(ts, v) : ts[i].departureAt <= T /\ T < ts[i].arrivalAt

\* locationAt of the specification: in transit, else the destination of the
\* trip that arrived last, else the home location
SpecLocationAt(ts, hm, v, T) ==
  LET arrived == {i \in Timeline(ts, v) : ts[i].arrivalAt <= T} IN
  IF InProgressAt(ts, v, T) THEN IN_TRANSIT
  ELSE IF arrived = {} THEN hm[v]
  ELSE ts[CHOOSE i \in arrived : \A j \in arrived : ts[j].arrivalAt <= ts[i].arrivalAt]
         .destinationLocationCode

\* v is immediately available at loc at T
Qualifies(ts, hm, v, loc, T) ==
  /\ SpecLocationAt(ts, hm, v, T) = loc
  /\ ~ \E i \in Timeline(ts, v) : ts[i].departureAt = T

\* the trips of v do not overlap
NonOverlapping(ts, v) ==
  \A i, j \in Timeline(ts, v) :
    i # j => ts[i].arrivalAt <= ts[j].departureAt \/ ts[j].arrivalAt <= ts[i].departureAt

(***************************************************************************)
(* C3: no two non-cancelled trips of the same spaceship have overlapping   *)
(* [departure, arrival) windows, in every reachable state.                 *)
(***************************************************************************)
C3_NoDoubleBooking == \A v \in DOMAIN home : NonOverlapping(trips, v)

(***************************************************************************)
(* C4: getSpaceshipLocationAtTime returns for every spaceship and every    *)
(* instant, after at most as many nested calls as the spaceship has        *)
(* non-cancelled trips.                                                    *)
(***************************************************************************)
C4_LocationTerminates ==
  \A v \in DOMAIN home, T \in ProbeInstants :
    \A o \in getSpaceshipLocationAtTime(trips, home, v, T, 0) :
      /\ o.loc # NoReturn
      /\ o.depth <= Cardinality(Timeline(trips, v))

(***************************************************************************)
(* C5: when the non-cancelled trips of a spaceship do not overlap, at an   *)
(* instant T after the arrival of trip N and before every later departure  *)
(* the location is N's destination; and the subsequent trip looked up      *)
(* departs after the last completed trip's arrival and at or before T.     *)
(***************************************************************************)
C5_RestsAtLastDestination ==
  \A v \in DOMAIN home, T \in ProbeInstants :
    NonOverlapping(trips, v) =>
      \A n \in Timeline(trips, v) :
        ( /\ trips[n].arrivalAt < T
          /\ \A m \in Timeline(trips, v) :
               m # n => trips[m].arrivalAt <= trips[n].departureAt \/ T < trips[m].departureAt )
        =>
        /\ LocationsAt(trips, home, v, T) = {trips[n].destinationLocationCode}
        /\ \A s \in SubsequentTrips(trips, v, trips[n].arrivalAt, T) :
             trips[n].arrivalAt < trips[s].departureAt /\ trips[s].departureAt <= T

(***************************************************************************)
(* C6: at every instant T with departure <= T < arrival of a non-cancelled *)
(* trip, the spaceship's location is IN_TRANSIT, whatever earlier trips    *)
(* it has.                                                                 *)
(***************************************************************************)
C6_InTransitDuringTrip ==
  \A v \in DOMAIN home, T \in ProbeInstants :
    InProgressAt(trips, v, T) => LocationsAt(trips, home, v, T) = {IN_TRANSIT}

(***************************************************************************)
(* C7: a spaceship with no trips, or only cancelled ones, is at its        *)
(* currentLocationCode at every instant.                                   *)
(***************************************************************************)
C7_HomeWithoutTrips ==
  \A v \in DOMAIN home, T \in ProbeInstants :
    Timeline(trips, v) = {} => LocationsAt(trips, home, v, T) = {home[v]}

\* a spaceship all of whose trips are cancelled, and one with none
C7_Witness ==
  /\ \E v \in DOMAIN home :
       /\ \E i \in DOMAIN trips : trips[i].spaceshipId = v
       /\ Timeline(trips, v) = {}
       /\ \E T \in ProbeInstants : \E i \in DOMAIN trips : trips[i].arrivalAt <= T
  /\ \E v \in DOMAIN home : \A i \in DOMAIN trips : trips[i].spaceshipId # v

(***************************************************************************)
(* What the specification says of the outcomes of requestTrip.             *)
(***************************************************************************)
Confirmed == "SCHEDULED"
Proposed == "ALTERNATIVE_TIME_OFFERED"
NoAvailability == "BadRequestException: No spaceships available for this route"

\* the trips table before the trip of the Confirmed result was inserted
Before(ts, r) == IF r.status = Confirmed THEN SubSeq(ts, 1, r.tripId - 1) ELSE ts

\* v has a candidate instant at loc at or after afterT
HasCandidate(ts, hm, v, loc, afterT) ==
  \/ SpecLocationAt(ts, hm, v, afterT) = loc
  \/ \E i \in Timeline(ts, v) :
       ts[i].destinationLocationCode = loc /\ ts[i].arrivalAt > afterT

\* requestTrip for a departure from loc at T returns Confirmed on these tables
ConfirmedOn(ts, hm, loc, T) ==
  \A view \in LocationViews(ts, hm, T) :
    Returns(view) /\ findAvailableSpaceships(ts, view, loc, T) # {}

(***************************************************************************)
(* C1: of two concurrent requestTrip calls for the same departure location *)
(* and instant that found the same single spaceship available, at most one *)
(* returns Confirmed: a call that found exactly spaceship v available is   *)
(* not Confirmed when another trip of v leaving that location at that      *)
(* instant has been persisted since.                                       *)
(***************************************************************************)
C1_AtMostOneConfirmed ==
  ~ \E j \in DOMAIN trips :
      /\ result.status = Confirmed
      /\ result.tripId # j
      /\ result.asked.availableSpaceships = {trips[j].spaceshipId}
      /\ trips[j].departureLocationCode = result.asked.departureLocationCode
      /\ trips[j].departureAt = result.asked.departureAt
      /\ trips[j].status = "SCHEDULED"

(***************************************************************************)
(* C2: when a Confirmed trip is committed, its spaceship is immediately    *)
(* available on the tables as committed at that moment: it is at the       *)
(* departure location at the requested instant and no non-cancelled trip   *)
(* of it departs at that instant.                                          *)
(***************************************************************************)
C2_AvailableAtCommit ==
  result.status = Confirmed =>
    Qualifies(Before(trips, result), home, result.spaceshipId,
      result.asked.departureLocationCode, result.asked.departureAt)

(***************************************************************************)
(* C8: every validated requestTrip returns, and returns Confirmed exactly  *)
(* when some spaceship is immediately available, else Proposed when some   *)
(* spaceship has a candidate, and the no-availability rejection only when  *)
(* none has.                                                               *)
(***************************************************************************)
C8_ThreeOutcomes ==
  LET r == result
      loc == r.asked.departureLocationCode
      T == r.asked.departureAt
      qualifying == {v \in DOMAIN home : Qualifies(Before(trips, r), home, v, loc, T)}
      candidates == {v \in DOMAIN home : HasCandidate(trips, home, v, loc, T)}
  IN /\ \A p \in Clients : pc[p] # "searching"
     /\ r.status # "QueryFailedError"
     /\ r.status = Confirmed => r.spaceshipId \in qualifying
     /\ r.status = Proposed => qualifying = {} /\ candidates # {}
     /\ r.status = NoAvailability => qualifying = {} /\ candidates = {}

(***************************************************************************)
(* C9: with only spaceship 1 in the fleet, at JFK: a request JFK->LAX at   *)
(* a future T on empty tables is Confirmed with arrival T + 247579 ticks   *)
(* (2475.79 miles at 1000 mph); a later request JFK->LAX at the same T,    *)
(* with that trip as the only one, is rejected with no availability,       *)
(* because the only trip ends at LAX and nothing comes back to JFK.        *)
(***************************************************************************)
C9_Asked(dto) ==
  /\ dto.departureLocationCode = "JFK"
  /\ dto.destinationLocationCode = "LAX"

C9_Fleet == DOMAIN home = {1} /\ home[1] = "JFK"

C9_Second(dto) ==
  /\ C9_Fleet
  /\ C9_Asked(dto)
  /\ Len(trips) = 1
  /\ trips[1].departureLocationCode = "JFK"
  /\ trips[1].destinationLocationCode = "LAX"
  /\ trips[1].departureAt = dto.departureAt
  /\ trips[1].status # "CANCELLED"

C9_FirstConfirmed ==
  /\ (C9_Fleet /\ trips = <<>>) =>
       /\ \A p \in Clients : pc[p] # "searching"
       /\ C9_Asked(result.asked) => result.status \notin {Proposed, NoAvailability, "QueryFailedError"}
  /\ (C9_Fleet /\ C9_Asked(result.asked) /\ result.status = Confirmed /\ result.tripId = 1) =>
       /\ result.departureAt = result.asked.departureAt
       /\ result.arrivalAt = result.asked.departureAt + 247579
       /\ trips[1].arrivalAt = result.arrivalAt
       /\ trips[1].spaceshipId = 1

C9_SecondRejected ==
  /\ C9_FirstConfirmed
  /\ \A p \in Clients : ~ (pc[p] = "searching" /\ C9_Second(req[p]))
  /\ (C9_Second(result.asked) /\ result.status \in {Proposed, NoAvailability}) =>
       result.status = NoAvailability

\* the claim as written: the later request returns a Proposed alternative
C9_SecondProposed ==
  /\ C9_FirstConfirmed
  /\ \A p \in Clients : ~ (pc[p] = "searching" /\ C9_Second(req[p]))
  /\ (C9_Second(result.asked) /\ result.status \in {Proposed, NoAvailability}) =>
       result.status = Proposed

\* the later request has been answered, the first trip still scheduled
C9_Witness ==
  /\ C9_Second(result.asked)
  /\ trips[1].status = "SCHEDULED"
  /\ trips[1].arrivalAt = trips[1].departureAt + 247579
  /\ result.status = NoAvailability

(***************************************************************************)
(* C10: a Proposed alternative names a spaceship and an instant at which   *)
(* the spaceship is at the departure location with no non-cancelled trip   *)
(* departing at that instant, and requestTrip for that instant on the      *)
(* unchanged tables returns Confirmed.                                     *)
(***************************************************************************)
C10_ProposalBookable ==
  result.status = Proposed =>
    /\ Qualifies(trips, home, result.spaceshipId,
         result.asked.departureLocationCode, result.departureAt)
    /\ ConfirmedOn(trips, home, result.asked.departureLocationCode, result.departureAt)

(***************************************************************************)
(* C11: findEarliestAvailableSpaceship returns, and returns the minimum,   *)
(* over the spaceships that have one, of the candidate instant (afterT if  *)
(* the spaceship is at the departure location at afterT, else the earliest *)
(* arrival after afterT of a non-cancelled trip ending there); the instant *)
(* is at or after afterT and the lowest id wins a tie.                     *)
(***************************************************************************)
\* the candidate instant of v, NoTime for none
Candidate(ts, hm, v, loc, afterT) ==
  LET arrivals == {ts[i].arrivalAt : i \in
                     {j \in Timeline(ts, v) :
                        ts[j].destinationLocationCode = loc /\ ts[j].arrivalAt > afterT}}
  IN IF SpecLocationAt(ts, hm, v, afterT) = loc THEN afterT
     ELSE IF arrivals = {} THEN NoTime
     ELSE CHOOSE t \in arrivals : \A u \in arrivals : t <= u

C11_EarliestIsMinimum ==
  \A afterT \in ProbeInstants, loc \in LocationCodes :
    \A view \in LocationViews(trips, home, afterT) :
      /\ Returns(view)
      /\ LET earliest == findEarliestAvailableSpaceship(trips, view, loc,
                           CHOOSE d \in LocationCodes : d # loc, afterT)
             having == {v \in DOMAIN home : Candidate(trips, home, v, loc, afterT) # NoTime}
         IN IF having = {}
            THEN earliest.spaceshipId = 0
            ELSE /\ earliest.spaceshipId \in having
                 /\ earliest.departureAt = Candidate(trips, home, earliest.spaceshipId, loc, afterT)
                 /\ earliest.departureAt >= afterT
                 /\ \A v \in having :
                      \/ earliest.departureAt < Candidate(trips, home, v, loc, afterT)
                      \/ /\ earliest.departureAt = Candidate(trips, home, v, loc, afterT)
                         /\ earliest.spaceshipId <= v

(***************************************************************************)
(* C12: a requestTrip that returns a Proposed alternative or the           *)
(* no-availability rejection leaves the trips and the spaceships' home     *)
(* locations as they were, and a row is added to the trips only by a       *)
(* requestTrip that returns Confirmed, one row at a time.                  *)
(***************************************************************************)
C12_OnlyConfirmedCreates ==
  [][ /\ result'.status \in {Proposed, NoAvailability} =>
           trips' = trips /\ home' = home
      /\ Len(trips') # Len(trips) =>
           /\ result'.status = Confirmed
           /\ Len(trips') = Len(trips) + 1
           /\ result'.tripId = Len(trips')
           /\ SubSeq(trips', 1, Len(trips)) = trips ]_vars

\* a proposal has just been returned, with a scheduled trip stored
C12_Witness ==
  /\ result.status = Proposed
  /\ Len(trips) >= 1
  /\ \E i \in DOMAIN trips : trips[i].status = "SCHEDULED"

(***************************************************************************)
(* C13: the trip persisted by a Confirmed requestTrip has status           *)
(* SCHEDULED, the requested departure instant and location codes, arrival  *)
(* = departure + the travel time of the route's distance at 1000 mph, and  *)
(* a spaceship that was immediately available when requestTrip looked.     *)
(***************************************************************************)
\* travel time in ticks of 36 ms: 2475.79, 2586.48 and 347.42 miles take
\* 8912844, 9311328 and 1250712 ms
TravelTicks(from, to) ==
  CASE {from, to} = {"JFK", "LAX"} -> 8912844 \div 36
    [] {from, to} = {"JFK", "SFO"} -> 9311328 \div 36
    [] {from, to} = {"LAX", "SFO"} -> 1250712 \div 36

C13_PersistedTrip ==
  [][ /\ \A p \in Clients :
           (pc[p] # "booking" /\ pc'[p] = "booking") =>
             /\ req'[p].spaceshipId \in req'[p].availableSpaceships
             /\ \A v \in req'[p].availableSpaceships :
                  Qualifies(trips, home, v, req'[p].departureLocationCode,
                    req'[p].departureAt)
      /\ result'.status = Confirmed =>
           LET dto == result'.asked
               trip == trips'[result'.tripId]
           IN /\ trip.status = "SCHEDULED"
              /\ trip.departureAt = dto.departureAt
              /\ trip.departureLocationCode = dto.departureLocationCode
              /\ trip.destinationLocationCode = dto.destinationLocationCode
              /\ trip.spaceshipId \in dto.availableSpaceships
              /\ trip.arrivalAt = trip.departureAt
                   + TravelTicks(dto.departureLocationCode, dto.destinationLocationCode)
              /\ result'.spaceshipId = trip.spaceshipId
              /\ result'.departureAt = trip.departureAt
              /\ result'.arrivalAt = trip.arrivalAt ]_vars

\* a second trip has just been confirmed, from JFK to LAX on the second
\* spaceship
C13_Witness ==
  /\ result.status = Confirmed
  /\ result.tripId = 2
  /\ trips[2].spaceshipId = 2
  /\ trips[2].departureLocationCode = "JFK"
  /\ trips[2].destinationLocationCode = "LAX"
  /\ trips[2].arrivalAt = trips[2].departureAt + 247579

(***************************************************************************)
(* C14: a trip's status only moves SCHEDULED -> IN_PROGRESS, SCHEDULED ->  *)
(* COMPLETED, IN_PROGRESS -> COMPLETED or SCHEDULED -> CANCELLED; it never *)
(* returns to SCHEDULED and never leaves COMPLETED or CANCELLED.           *)
(***************************************************************************)
ForwardTransitions ==
  {<<"SCHEDULED", "IN_PROGRESS">>, <<"SCHEDULED", "COMPLETED">>,
   <<"IN_PROGRESS", "COMPLETED">>, <<"SCHEDULED", "CANCELLED">>}

C14_StatusMovesForward ==
  [][ \A i \in DOMAIN trips :
        trips'[i].status # trips[i].status =>
          <<trips[i].status, trips'[i].status>> \in ForwardTransitions ]_vars

(***************************************************************************)
(* C15: whenever cancelTrip writes CANCELLED to a trip, the status stored  *)
(* just before the write is SCHEDULED and the trip's departure is still    *)
(* after the current time.                                                 *)
(***************************************************************************)
C15_CancelsOnlyScheduledFuture ==
  [][ \A p \in Clients :
        (pc[p] = "cancelling" /\ pc'[p] = "idle") =>
          /\ trips[req[p].tripId].status = "SCHEDULED"
          /\ trips[req[p].tripId].departureAt > now ]_vars

(***************************************************************************)
(* C16: of two concurrent cancelTrip calls on the same SCHEDULED trip      *)
(* exactly one succeeds: cancelTrip never returns success for a trip that  *)
(* another call has cancelled since it was read.                           *)
(***************************************************************************)
C16_CancelledOnce ==
  [][ (result'.status = "CANCELLED" /\ result'.tripId \in DOMAIN trips) =>
        trips[result'.tripId].status # "CANCELLED" ]_vars

(***************************************************************************)
(* C17: cancelTrip throws, with the reason of the case, and changes no     *)
(* trip and no spaceship when the trip id is unknown, when the trip it     *)
(* reads is CANCELLED, when it is COMPLETED, or when its departure is at   *)
(* or before the current time; in none of these cases does it go on to     *)
(* its save.                                                               *)
(***************************************************************************)
\* the rejection the specification gives a cancelTrip of tripId, "" for none
CancelRejection(ts, tripId, current) ==
  CASE tripId \notin DOMAIN ts -> "NotFoundException: Trip not found"
    [] tripId \in DOMAIN ts /\ ts[tripId].status = "CANCELLED" ->
         "BadRequestException: Trip is already cancelled"
    [] tripId \in DOMAIN ts /\ ts[tripId].status = "COMPLETED" ->
         "BadRequestException: Cannot cancel a completed trip"
    [] tripId \in DOMAIN ts /\ ts[tripId].status \in {"SCHEDULED", "IN_PROGRESS"}
         /\ ts[tripId].departureAt <= current ->
         "BadRequestException: Cannot cancel a trip that has already departed"
    [] OTHER -> ""

CancelRejections ==
  {"NotFoundException: Trip not found",
   "BadRequestException: Trip is already cancelled",
   "BadRequestException: Cannot cancel a completed trip",
   "BadRequestException: Cannot cancel a trip that has already departed"}

C17_CancelRejected ==
  [][ /\ \A p \in Clients :
           (pc[p] = "idle" /\ pc'[p] = "cancelling") =>
             CancelRejection(trips, req'[p].tripId, now) = ""
      /\ result'.status \in CancelRejections =>
           /\ result'.status = CancelRejection(trips, result'.asked.tripId, now)
           /\ trips' = trips
           /\ home' = home
           /\ pc' = pc ]_vars

\* a second cancelTrip of a trip cancelled before has just been rejected
C17_Witness ==
  /\ result.status = "BadRequestException: Trip is already cancelled"
  /\ result.asked.tripId \in DOMAIN trips
  /\ trips[result.asked.tripId].status = "CANCELLED"
  /\ \A p \in Clients : pc[p] = "idle"

(***************************************************************************)
(* C18: cancelled trips count for nothing: the location of every spaceship *)
(* at every instant, the available spaceships and the next available time  *)
(* are those computed on the trips with the cancelled ones removed, and a  *)
(* spaceship whose only trips are cancelled is available at its home       *)
(* location at each cancelled trip's departure instant.                    *)
(***************************************************************************)
\* the trips with the cancelled ones removed
IsNotCancelled(trip) == trip.status # "CANCELLED"

WithoutCancelled(ts) == SelectSeq(ts, IsNotCancelled)

C18_CancelledRemoved ==
  LET kept == WithoutCancelled(trips) IN
  (\E x \in DOMAIN trips : trips[x].status = "CANCELLED") =>
  /\ \A T \in ProbeInstants :
       /\ \A v \in DOMAIN home :
            getSpaceshipLocationAtTime(trips, home, v, T, 0)
              = getSpaceshipLocationAtTime(kept, home, v, T, 0)
       /\ \A view \in LocationViews(kept, home, T), loc \in LocationCodes :
            /\ findAvailableSpaceships(trips, view, loc, T)
                 = findAvailableSpaceships(kept, view, loc, T)
            /\ \A v \in DOMAIN home :
                 getNextAvailableTime(trips, view[v], v, loc, T)
                   = getNextAvailableTime(kept, view[v], v, loc, T)
  /\ \A x \in DOMAIN trips :
       LET v == trips[x].spaceshipId IN
       (trips[x].status = "CANCELLED" /\ Timeline(trips, v) = {}) =>
         \A view \in LocationViews(trips, home, trips[x].departureAt) :
           /\ view[v] = home[v]
           /\ v \in findAvailableSpaceships(trips, view, home[v], trips[x].departureAt)

\* a cancelTrip has just succeeded on the only trip of its spaceship, the
\* other spaceship keeping a trip
C18_Witness ==
  /\ result.status = "CANCELLED"
  /\ trips[result.tripId].status = "CANCELLED"
  /\ Timeline(trips, trips[result.tripId].spaceshipId) = {}
  /\ \E i \in DOMAIN trips : trips[i].status = "SCHEDULED"

(***************************************************************************)
(* C19: one run of updateTripStatuses at instant now turns every trip that *)
(* was SCHEDULED with departure <= now < arrival into IN_PROGRESS and      *)
(* every trip that was SCHEDULED or IN_PROGRESS with arrival <= now into   *)
(* COMPLETED; after it no trip with departure <= now is SCHEDULED and no   *)
(* trip with arrival <= now is IN_PROGRESS.                                *)
(***************************************************************************)
\* the steps of updateTripStatuses: no call moves or returns, the clock stands
ReconcilerRun ==
  /\ pc' = pc
  /\ req' = req
  /\ now' = now
  /\ result' = NoResponse

C19_RunAdvancesStatuses ==
  [][ ReconcilerRun =>
        /\ DOMAIN trips' = DOMAIN trips
        /\ \A i \in DOMAIN trips :
             /\ ( /\ trips[i].status = "SCHEDULED"
                  /\ trips[i].departureAt <= now
                  /\ now < trips[i].arrivalAt ) => trips'[i].status = "IN_PROGRESS"
             /\ ( /\ trips[i].status \in {"SCHEDULED", "IN_PROGRESS"}
                  /\ trips[i].arrivalAt <= now ) => trips'[i].status = "COMPLETED"
             /\ ~ (trips'[i].status = "SCHEDULED" /\ trips'[i].departureAt <= now)
             /\ ~ (trips'[i].status = "IN_PROGRESS" /\ trips'[i].arrivalAt <= now) ]_vars

\* after a run: one trip completed and another in progress, none overdue
C19_Witness ==
  /\ result = NoResponse
  /\ \E i, j \in DOMAIN trips :
       /\ trips[i].status = "COMPLETED" /\ trips[i].arrivalAt <= now
       /\ trips[j].status = "IN_PROGRESS" /\ trips[j].departureAt <= now
       /\ now < trips[j].arrivalAt
       /\ trips[i].spaceshipId # trips[j].spaceshipId

(***************************************************************************)
(* C20: a run of updateTripStatuses with now at or past the arrival of a   *)
(* SCHEDULED or IN_PROGRESS trip makes the trip COMPLETED and leaves the   *)
(* spaceship's currentLocationCode at the destination of the trip: of the  *)
(* one that arrived last, when the run completes several of its trips.     *)
(***************************************************************************)
\* the trips of v a run at the current instant completes
Completing(v) ==
  {i \in DOMAIN trips :
     /\ trips[i].spaceshipId = v
     /\ trips[i].status \in {"SCHEDULED", "IN_PROGRESS"}
     /\ trips[i].arrivalAt <= now}

C20_RunMovesHome ==
  [][ ReconcilerRun =>
        \A v \in DOMAIN home :
          Completing(v) # {} =>
            /\ \A i \in Completing(v) : trips'[i].status = "COMPLETED"
            /\ \E i \in Completing(v) :
                 /\ \A j \in Completing(v) : trips[j].arrivalAt <= trips[i].arrivalAt
                 /\ home'[v] = trips[i].destinationLocationCode ]_vars

(***************************************************************************)
(* C21: updateTripStatuses is idempotent. After a run at instant now, a    *)
(* second run at the same instant, or at a later instant with no trip's    *)
(* departure or arrival between the two, changes no trip status and no     *)
(* currentLocationCode.                                                    *)
(***************************************************************************)
\* the tables one run of updateTripStatuses at instant current may leave
RunAt(ts, hm, current) ==
  LET inProgress == UpdateInProgress(ts, current)
      completedTrips == CompletedTrips(inProgress, current)
  IN {<<UpdateCompleted(inProgress, current), h>> :
        h \in UpdateLocations(hm, RawRows(inProgress), completedTrips)}

\* no departure or arrival of a trip lies after instant a and at or before b
NothingElapsed(ts, a, b) ==
  \A i \in DOMAIN ts :
    /\ ~ (a < ts[i].departureAt /\ ts[i].departureAt <= b)
    /\ ~ (a < ts[i].arrivalAt /\ ts[i].arrivalAt <= b)

C21_RunIdempotent ==
  [][ ReconcilerRun =>
        \A t \in {now'} \cup ClockInstants' :
          (t >= now' /\ NothingElapsed(trips', now', t)) =>
            RunAt(trips', home', t) = {<<trips', home'>>} ]_vars

\* a run has completed a trip and moved its spaceship, while another trip
\* is still under way
C21_Witness ==
  /\ result = NoResponse
  /\ \A p \in Clients : pc[p] = "idle"
  /\ \E i, j \in DOMAIN trips :
       /\ trips[i].status = "COMPLETED"
       /\ trips[i].arrivalAt <= now
       /\ home[trips[i].spaceshipId] = trips[i].destinationLocationCode
       /\ home[trips[i].spaceshipId] # SeedFleet[trips[i].spaceshipId]
       /\ trips[j].spaceshipId # trips[i].spaceshipId
       /\ trips[j].status = "IN_PROGRESS"
       /\ trips[j].arrivalAt > now

(***************************************************************************)
(* C22: a run of updateTripStatuses leaves every CANCELLED trip and every  *)
(* COMPLETED trip as it is, wherever now lies relative to its departure    *)
(* and arrival, and changes a spaceship's currentLocationCode only to the  *)
(* destination of one of its trips that was SCHEDULED or IN_PROGRESS and   *)
(* has arrived: never on account of a cancelled trip.                      *)
(***************************************************************************)
C22_RunSkipsCancelled ==
  [][ ReconcilerRun =>
        /\ \A i \in DOMAIN trips :
             trips[i].status \in {"CANCELLED", "COMPLETED"} =>
               i \in DOMAIN trips' /\ trips'[i] = trips[i]
        /\ \A v \in DOMAIN home :
             home'[v] # home[v] =>
               \E i \in DOMAIN trips :
                 /\ trips[i].spaceshipId = v
                 /\ trips[i].status \in {"SCHEDULED", "IN_PROGRESS"}
                 /\ trips[i].arrivalAt <= now
                 /\ trips[i].destinationLocationCode = home'[v] ]_vars

\* a run has completed the trip of one spaceship while the cancelled trip of
\* another, its arrival passed as well, is still CANCELLED and that spaceship
\* still where it was
C22_Witness ==
  /\ result = NoResponse
  /\ \E i, j \in DOMAIN trips :
       /\ trips[i].status = "CANCELLED"
       /\ trips[i].arrivalAt <= now
       /\ home[trips[i].spaceshipId] = SeedFleet[trips[i].spaceshipId]
       /\ home[trips[i].spaceshipId] # trips[i].destinationLocationCode
       /\ trips[j].spaceshipId # trips[i].spaceshipId
       /\ trips[j].status = "COMPLETED"
       /\ home[trips[j].spaceshipId] = trips[j].destinationLocationCode
       /\ home[trips[j].spaceshipId] # SeedFleet[trips[j].spaceshipId]

(***************************************************************************)
(* C23: a requestTrip whose departure and destination codes are equal,     *)
(* whose departure or destination is not a known location, whose departure *)
(* instant is not in the future, or whose departure instant is more than   *)
(* one year ahead is rejected before any availability computation runs,    *)
(* and leaves all trips and spaceships unchanged.                          *)
(***************************************************************************)
\* the request is one the specification has rejected at instant current
Invalid(dto, current) ==
  \/ toUpperCase(dto.departureLocationCode) = toUpperCase(dto.destinationLocationCode)
  \/ toUpperCase(dto.departureLocationCode) \notin LocationCodes
  \/ toUpperCase(dto.destinationLocationCode) \notin LocationCodes
  \/ dto.departureAt <= current
  \/ dto.departureAt > current + 366 * TicksPerDay

\* the exceptions of the validation
ValidationRejections ==
  {"NotFoundException: Invalid location codes",
   "BadRequestException: Departure and destination cannot be the same",
   "BadRequestException: Departure time must be in the future",
   "BadRequestException: Cannot book trips more than 1 year in advance"}

C23_InvalidRejected ==
  [][ \A p \in Clients :
        pc[p] = "idle" =>
          \* a call that went on to the availability computation was valid
          /\ pc'[p] \in {"searching", "booking"} => ~ Invalid(req'[p], now)
          \* an invalid call is rejected by the validation, nothing changed
          /\ ( /\ result'.client = p
               /\ result'.asked.departureLocationCode # ""
               /\ Invalid(result'.asked, now) )
             => /\ result'.status \in ValidationRejections
                /\ trips' = trips
                /\ home' = home
                /\ pc' = pc
                /\ req' = req ]_vars

(***************************************************************************)
(* C24: when a step of the booking transaction of requestTrip fails        *)
(* (calculateTravelDetails, the insert or the commit), the transaction is  *)
(* rolled back, the caller gets the error, and the persisted trips are     *)
(* exactly those from before the request: no partial trip record remains.  *)
(***************************************************************************)
C24_FailureRollsBack ==
  [][ \A p \in Clients :
        ( /\ pc[p] = "booking"
          /\ result'.client = p
          /\ result'.status # Confirmed )
        => /\ result'.status \in TransactionFaults \cup {"QueryFailedError"}
           /\ result'.asked = req[p]
           /\ trips' = trips
           /\ home' = home
           /\ pc' = [pc EXCEPT ![p] = "idle"] ]_vars

\* the commit of a booking has just failed, after another trip was booked:
\* the table holds that trip and no row for the failed request
C24_Witness ==
  /\ result.status = SerializationFailure
  /\ result.asked.spaceshipId \in DOMAIN home
  /\ Len(trips) = 1
  /\ trips[1].status = "SCHEDULED"
  /\ trips[1].departureAt # result.asked.departureAt
  /\ pc[result.client] = "idle"

(***************************************************************************)
(* C25: when the booking transaction of requestTrip fails with a           *)
(* serialization conflict, the availability check and the insert are run   *)
(* again at least once before a conflict reaches the caller: the           *)
(* serialization failure of a call's first attempt is never what the call  *)
(* returns. (Every transaction is its call's first attempt: no step leads  *)
(* from the transaction back to findAvailableSpaceships.)                  *)
(***************************************************************************)
C25_ConflictRetried ==
  [][ \A p \in Clients :
        pc[p] = "booking" =>
          ~ (result'.client = p /\ result'.status = SerializationFailure) ]_vars

(***************************************************************************)
(* C26: for every non-cancelled trip and every instant now with            *)
(* departure <= now < arrival, getTripStatus reports the trip as in        *)
(* progress together with an interpolated current position, whether the    *)
(* stored status is still SCHEDULED or already IN_PROGRESS.                *)
(***************************************************************************)
\* x lies between a and b, whichever of the two is the greater
Between(x, a, b) == (a <= x /\ x <= b) \/ (b <= x /\ x <= a)

C26_InProgressReported ==
  ( /\ result.status = "TRIP_STATUS"
    /\ trips[result.tripId].status # "CANCELLED"
    /\ trips[result.tripId].departureAt <= now
    /\ now < trips[result.tripId].arrivalAt )
  => /\ result.tripStatus.status = "IN_PROGRESS"
     /\ result.tripStatus.currentLocation.code = IN_TRANSIT
     /\ Between(result.tripStatus.currentLocation.latitude,
                latitude(trips[result.tripId].departureLocationCode),
                latitude(trips[result.tripId].destinationLocationCode))
     /\ Between(result.tripStatus.currentLocation.longitude,
                longitude(trips[result.tripId].departureLocationCode),
                longitude(trips[result.tripId].destinationLocationCode))

(***************************************************************************)
(* C27: when several spaceships are immediately available for a request,   *)
(* the Confirmed trip is assigned to the available spaceship with the      *)
(* lowest id, so that the same tables always give the same choice.         *)
(***************************************************************************)
C27_LowestIdChosen ==
  result.status = Confirmed =>
    \A v \in result.asked.availableSpaceships : result.spaceshipId <= v

(***************************************************************************)
(* C28: trips are never deleted and only their status is ever changed:     *)
(* across requestTrip, cancelTrip, getTripStatus and updateTripStatuses    *)
(* the set of trip ids only grows, and each trip's spaceship, departure    *)
(* location, destination location, departure instant and arrival instant   *)
(* stay as created.                                                        *)
(***************************************************************************)
C28_OnlyStatusChanges ==
  [][ /\ DOMAIN trips \subseteq DOMAIN trips'
      /\ \A i \in DOMAIN trips :
           trips'[i] = [trips[i] EXCEPT !.status = trips'[i].status] ]_vars

\* one trip has been cancelled and another completed; both still have the
\* route and the instants they were booked with
C28_Witness ==
  \E i, j \in DOMAIN trips :
    /\ trips[i].status = "CANCELLED"
    /\ trips[j].status = "COMPLETED"
    /\ \A k \in {i, j} :
         /\ trips[k].spaceshipId \in DOMAIN home
         /\ trips[k].departureAt \in {h * TicksPerHour : h \in 1..MaxHours}
         /\ trips[k].arrivalAt = trips[k].departureAt
              + TravelTicks(trips[k].departureLocationCode, trips[k].destinationLocationCode)

(***************************************************************************)
(* C29: in every reachable state every persisted trip has its departure    *)
(* strictly before its arrival; a booking whose computed travel duration   *)
(* is zero, so that the arrival would equal the departure, does not        *)
(* produce a persisted trip.                                               *)
(***************************************************************************)
C29_DepartureBeforeArrival ==
  [][ /\ \A i \in DOMAIN trips' : trips'[i].departureAt < trips'[i].arrivalAt
      /\ \A p \in Clients :
           ( /\ pc[p] = "booking"
             /\ pc'[p] = "idle"
             /\ calculateTravelTime(calculateDistance(req[p].departureLocationCode,
                  req[p].destinationLocationCode)) = 0 )
           => trips' = trips /\ result'.status # Confirmed ]_vars

\* a booking from JFK to jfk, of travel duration zero, has just failed, the
\* table holding the trip booked before it
C29_Witness ==
  /\ result.status = "QueryFailedError"
  /\ result.asked.departureLocationCode = "JFK"
  /\ result.asked.destinationLocationCode = LowerCaseCode
  /\ Len(trips) = 1
  /\ trips[1].departureAt < trips[1].arrivalAt

(***************************************************************************)
(* C30: a spaceship's currentLocationCode is changed only by               *)
(* updateTripStatuses when one of that spaceship's trips completes:        *)
(* requestTrip (Confirmed, Proposed or rejected), cancelTrip, getTripStatus *)
(* and the availability queries leave every spaceship's                    *)
(* currentLocationCode unchanged, and spaceships are never deleted.        *)
(***************************************************************************)
C30_HomeMovedByRunOnly ==
  [][ /\ DOMAIN home' = DOMAIN home
      /\ (result' # NoResponse \/ pc' # pc \/ req' # req) => home' = home
      /\ \A v \in DOMAIN home :
           home'[v] # home[v] =>
             /\ ReconcilerRun
             /\ \E i \in DOMAIN trips :
                  /\ trips[i].spaceshipId = v
                  /\ trips[i].status # "COMPLETED"
                  /\ trips'[i].status = "COMPLETED"
                  /\ trips[i].destinationLocationCode = home'[v] ]_vars

\* after a run moved a spaceship, a getTripStatus has returned and the
\* spaceship is still where the run put it
C30_Witness ==
  /\ result.status = "TRIP_STATUS"
  /\ trips[result.tripId].status = "COMPLETED"
  /\ home[trips[result.tripId].spaceshipId] = trips[result.tripId].destinationLocationCode
  /\ home[trips[result.tripId].spaceshipId] # SeedFleet[trips[result.tripId].spaceshipId]

(***************************************************************************)
(* C31: temporal consistency of each spaceship's timeline. In every state  *)
(* requestTrip and cancelTrip lead to, bookings out of chronological order *)
(* and cancellations included, each non-cancelled trip departs from the    *)
(* destination of the spaceship's immediately preceding non-cancelled trip *)
(* in time order, or from the spaceship's home location if there is none.  *)
(* The spaceships looked at are those updateTripStatuses has not moved.    *)
(***************************************************************************)
\* the non-cancelled trips of v that depart before trip i and after which no
\* other one departs before i
Preceding(ts, v, i) ==
  LET earlier == {j \in Timeline(ts, v) : ts[j].departureAt < ts[i].departureAt}
  IN {j \in earlier : \A k \in earlier : ts[k].departureAt <= ts[j].departureAt}

\* updateTripStatuses has not moved v
NotMoved(v) ==
  /\ home[v] = SeedFleet[v]
  /\ \A i \in DOMAIN trips : trips[i].spaceshipId = v => trips[i].status # "COMPLETED"

C31_TimelineConsistent ==
  \A v \in DOMAIN home :
    NotMoved(v) =>
      \A i \in Timeline(trips, v) :
        IF Preceding(trips, v, i) = {}
        THEN trips[i].departureLocationCode = home[v]
        ELSE \A j \in Preceding(trips, v, i) :
               trips[i].departureLocationCode = trips[j].destinationLocationCode

(***************************************************************************)
(* C32: a requestTrip whose departure instant is exactly the current       *)
(* instant is rejected by the validation: only departures strictly later   *)
(* than now are accepted.                                                  *)
(***************************************************************************)
C32_NowRejected ==
  [][ \A p \in Clients :
        pc[p] = "idle" =>
          \* a call the validation let through departs strictly after now
          /\ pc'[p] \in {"searching", "booking"} => req'[p].departureAt > now
          \* a call for a departure at now gets one of the validation's
          \* exceptions
          /\ ( /\ result'.client = p
               /\ result'.asked.departureLocationCode # ""
               /\ result'.asked.departureAt = now )
             => result'.status \in ValidationRejections ]_vars

(***************************************************************************)
(* C33: under a clock that keeps advancing and weak fairness of the        *)
(* periodic updateTripStatuses run, every trip that is never cancelled     *)
(* eventually reaches status COMPLETED and from then on stays COMPLETED.   *)
(***************************************************************************)
\* trip i is never cancelled
NeverCancelled(i) == [](i \in DOMAIN trips => trips[i].status # "CANCELLED")

\* from some point on trip i, if booked, is COMPLETED (a booked trip stays in
\* the table)
CompletedForGood(i) == <>[](i \in DOMAIN trips => trips[i].status = "COMPLETED")

C33_EventuallyCompleted ==
  \A i \in 1..MaxTrips : NeverCancelled(i) => CompletedForGood(i)

\* every trip the table may hold has been booked, each on a spaceship of its
\* own, and completed, its arrival passed
C33_Witness ==
  /\ Len(trips) = MaxTrips
  /\ \A i \in DOMAIN trips :
       /\ trips[i].status = "COMPLETED"
       /\ trips[i].arrivalAt <= now
       /\ \A j \in DOMAIN trips : j # i => trips[j].spaceshipId # trips[i].spaceshipId

(***************************************************************************)
(* C34: when one updateTripStatuses run completes two or more trips of the *)
(* same spaceship, the spaceship's home location after the run is the      *)
(* destination of the completed trip with the latest arrival, whatever the *)
(* order in which the completed rows come back.                            *)
(***************************************************************************)
\* the trips of ts that arrive last
LatestArrival(ts, among) ==
  {i \in among : \A j \in among : ts[j].arrivalAt <= ts[i].arrivalAt}

C34_SeveralCompletedLatestWins ==
  [][ ReconcilerRun =>
        \A v \in DOMAIN home :
          Cardinality(Completing(v)) >= 2 =>
            home'[v] \in {trips[i].destinationLocationCode :
                            i \in LatestArrival(trips, Completing(v))} ]_vars

(***************************************************************************)
(* C35: for every trip that is not cancelled and every instant, the status *)
(* getTripStatus reports is the one updateTripStatuses would store if it   *)
(* ran at that instant (SCHEDULED before the departure, IN_PROGRESS from   *)
(* the departure up to the arrival, COMPLETED from the arrival on),        *)
(* however stale the stored status is; and getTripStatus changes nothing   *)
(* that is stored.                                                         *)
(***************************************************************************)
\* the status of a trip that is not cancelled, by the clock
StatusByClock(trip, current) ==
  IF current < trip.departureAt THEN "SCHEDULED"
  ELSE IF current < trip.arrivalAt THEN "IN_PROGRESS"
  ELSE "COMPLETED"

C35_ReportedAsReconciled ==
  [][ result'.status = "TRIP_STATUS" =>
        /\ trips' = trips
        /\ home' = home
        /\ LET i == result'.tripId IN
             trips[i].status # "CANCELLED" =>
               result'.tripStatus.status = StatusByClock(trips[i], now) ]_vars

(***************************************************************************)
(* C36: the stored status never runs ahead of the clock: a trip stored as  *)
(* IN_PROGRESS has its departure at or before now, a trip stored as        *)
(* COMPLETED has its arrival at or before now, and a trip stored as        *)
(* CANCELLED was cancelled at an instant before its departure.             *)
(***************************************************************************)
\* the step stores trip i as CANCELLED
BecomesCancelled(i) ==
  /\ trips'[i].status = "CANCELLED"
  /\ i \in DOMAIN trips => trips[i].status # "CANCELLED"

C36_StatusNotAheadOfClock ==
  [][ \A i \in DOMAIN trips' :
        /\ trips'[i].status = "IN_PROGRESS" => trips'[i].departureAt <= now'
        /\ trips'[i].status = "COMPLETED" => trips'[i].arrivalAt <= now'
        /\ BecomesCancelled(i) => now' < trips'[i].departureAt ]_vars

(***************************************************************************)
(* C37: getCurrentLocation is clamped to the trip's endpoints: at or       *)
(* before the departure it returns exactly the departure coordinates with  *)
(* progress 0, at or after the arrival exactly the destination coordinates *)
(* with progress 1, and between the two a point whose progress is elapsed  *)
(* / total and lies strictly between 0 and 1. (Progress is in hundredths.) *)
(***************************************************************************)
\* getCurrentLocation has returned
Located == result.status = "CURRENT_LOCATION"

\* what it returned, and the trip it was asked about
Location == result.tripStatus.currentLocation
LocatedTrip == trips[result.tripId]

\* the result at or before the departure and at or after the arrival
Clamped ==
  /\ now <= LocatedTrip.departureAt =>
       Location = [latitude |-> latitude(LocatedTrip.departureLocationCode),
                   longitude |-> longitude(LocatedTrip.departureLocationCode),
                   progress |-> 0]
  /\ now >= LocatedTrip.arrivalAt =>
       Location = [latitude |-> latitude(LocatedTrip.destinationLocationCode),
                   longitude |-> longitude(LocatedTrip.destinationLocationCode),
                   progress |-> 100]

\* the instant is strictly between the departure and the arrival
UnderWay == LocatedTrip.departureAt < now /\ now < LocatedTrip.arrivalAt

C37_ProgressStrictlyInside ==
  Located =>
    /\ Clamped
    /\ UnderWay =>
         /\ Location.progress * (LocatedTrip.arrivalAt - LocatedTrip.departureAt)
              = 100 * (now - LocatedTrip.departureAt)
         /\ 0 < Location.progress
         /\ Location.progress < 100

\* p differs from 100 * elapsed / total by no more than a half
NearestHundredth(p, elapsed, total) ==
  /\ 2 * (p * total - 100 * elapsed) <= total
  /\ 2 * (100 * elapsed - p * total) <= total

\* C37, as the code has it: between the departure and the arrival the progress
\* is elapsed / total rounded to the nearest hundredth, from 0 to 1 and either
\* of them included, and the point lies between the two locations
C37_ProgressRounded ==
  Located =>
    /\ Clamped
    /\ UnderWay =>
         /\ NearestHundredth(Location.progress, now - LocatedTrip.departureAt,
                             LocatedTrip.arrivalAt - LocatedTrip.departureAt)
         /\ 0 <= Location.progress
         /\ Location.progress <= 100
         /\ Between(Location.latitude,
                    latitude(LocatedTrip.departureLocationCode),
                    latitude(LocatedTrip.destinationLocationCode))
         /\ Between(Location.longitude,
                    longitude(LocatedTrip.departureLocationCode),
                    longitude(LocatedTrip.destinationLocationCode))

\* a trip under way, past its departure coordinates, whose progress is given
\* as 0
C37_Witness ==
  /\ Located
  /\ UnderWay
  /\ Location.progress = 0
  /\ Location.latitude # latitude(LocatedTrip.departureLocationCode)

====
